---- MODULE Spec2Model ----
(***************************************************************************)
(* Model of dataviews/operation.py: the ViewOperation / StackOperation     *)
(* dispatch framework, the per-layer operations RGBA, Colorize, contours   *)
(* and sample, and the curve_collapse stack operation.                     *)
(*                                                                         *)
(* Python's None is the empty sequence and a present value x the one       *)
(* element sequence <<x>>.  A raised exception ends a call with            *)
(* kind = "error" and the exception's class in exc.                        *)
(***************************************************************************)
EXTENDS Integers, Sequences, FiniteSets, TLC

VARIABLES
    cpc,          \* ViewOperation.__call__: position in the call
    cview,        \* ViewOperation.__call__: the argument `view`
    mapped_items, \* ViewOperation.__call__: local mapped_items
    signature,    \* ViewOperation.__call__: local signature
    stacks,       \* ViewOperation.__call__: local stacks
    cnext,        \* ViewOperation.__call__: next entry of the loop of line 115
    cresult,      \* ViewOperation.__call__: what the call returned or raised
    sview,        \* sample._process: the argument `view`
    ssamples,     \* sample._process: the parameter `samples`
    sresult,      \* sample._process: what the call returned or raised
    rgiven,       \* RGBA._process: the overlay as it was when the call began
    roverlay,     \* RGBA._process: the argument `overlay`, a mutable object
    rwarnings,    \* RGBA._process: calls of self.warning
    rresult,      \* RGBA._process: what the call returned or raised
    zoverlay,     \* Colorize._process: the argument `overlay`
    zresult,      \* Colorize._process: what the call returned or raised
    kpc,          \* contours._process: position in the call
    ksheetview,   \* contours._process: the argument `sheetview`
    klevels,      \* contours._process: the parameter `levels`
    figure_handle,\* contours._process: state of the backend figure of the call
    contour_set,  \* contours._process: local contour_set
    kcontours,    \* contours._process: local contours
    kresult,      \* contours._process: what the call returned or raised
    qpc,          \* curve_collapse: position in the call
    qstack,       \* curve_collapse: the argument `stack`
    p_x_axis,     \* curve_collapse: the parameter x_axis
    p_group_by,   \* curve_collapse: the parameter group_by
    p_samples,    \* curve_collapse: the parameter samples
    sampled_stack,\* curve_collapse._process: local sampled_stack
    split_data,   \* curve_collapse._process: local split_data
    qresult       \* curve_collapse: what the call returned or raised

callVars == <<cpc, cview, mapped_items, signature, stacks, cnext, cresult>>

sampleVars == <<sview, ssamples, sresult>>

rgbaVars == <<rgiven, roverlay, rwarnings, rresult>>

colorizeVars == <<zoverlay, zresult>>

contoursVars == <<kpc, ksheetview, klevels, figure_handle, contour_set, kcontours, kresult>>

collapseVars ==
    <<qpc, qstack, p_x_axis, p_group_by, p_samples, sampled_stack, split_data, qresult>>

vars == <<callVars, sampleVars, rgbaVars, colorizeVars, contoursVars, collapseVars>>

\* what the calls of one operation leave alone: the state of the others
notCallVars == <<sampleVars, rgbaVars, colorizeVars, contoursVars, collapseVars>>
notSampleVars == <<callVars, rgbaVars, colorizeVars, contoursVars, collapseVars>>
notRGBAVars == <<callVars, sampleVars, colorizeVars, contoursVars, collapseVars>>
notColorizeVars == <<callVars, sampleVars, rgbaVars, contoursVars, collapseVars>>
notContoursVars == <<callVars, sampleVars, rgbaVars, colorizeVars, collapseVars>>
notCollapseVars == <<callVars, sampleVars, rgbaVars, colorizeVars, contoursVars>>

(***************************************************************************)
(* Bounds of the model.                                                    *)
(***************************************************************************)
MaxEntries == 2   \* entries of a stack handed to a per-layer operation
MaxOut == 2       \* views one _process call returns
MaxHeadings == 3  \* headings of a table, cells of a sheet
MaxSamples == 3   \* length of a list of requested samples
MaxLayers == 4    \* layers of an overlay handed to RGBA
MaxCells == 2     \* cells of a layer's array
MaxColorLayers == 3 \* layers of an overlay handed to Colorize
MaxLevels == 2    \* contour levels of one call
MaxStackKeys == 3 \* entries of a stack handed to curve_collapse
MaxGroup == 2     \* length of a group_by list

None == << >>
Some(x) == << x >>

Range(s) == {s[i] : i \in 1..Len(s)}

\* the keys of a sequence of (key, value) pairs
KeysOf(data) == {data[i][1] : i \in 1..Len(data)}

\* the sequences over S of length n at most that repeat no element
InjSeqsUpTo(S, n) ==
    {q \in UNION {[1..m -> S] : m \in 0..n} :
        \A i, j \in 1..Len(q) : q[i] = q[j] => i = j}

SeqsUpTo(S, n) == UNION {[1..m -> S] : m \in 0..n}

NoResult == [kind |-> "none", exc |-> "", items |-> << >>]
Raised(e) == [kind |-> "error", exc |-> e, items |-> << >>]

(***************************************************************************)
(* View classes and the stack type of each fundamental class.              *)
(***************************************************************************)
\* The classes of the views the modelled transforms return.
ViewTypes == {"SheetView", "Table", "DataGrid"}

\* The classes a view class derives from (itself included).
Bases(tp) ==
    CASE tp = "SheetView" -> {"SheetView", "SheetLayer"}
      [] tp = "Curve" -> {"Curve", "DataLayer"}
      [] tp = "Table" -> {"Table"}
      [] OTHER -> {tp}

stack_mapping ==
    [k \in {"SheetLayer", "DataLayer", "Table"} |->
        CASE k = "SheetLayer" -> "SheetStack"
          [] k = "DataLayer" -> "DataStack"
          [] OTHER -> "TableStack"]

\* [k for k in stack_mapping if issubclass(type(v), k)]
StackKeysOf(tp) == {k \in DOMAIN stack_mapping : k \in Bases(tp)}

(***************************************************************************)
(* ViewOperation._get_signature                                            *)
(***************************************************************************)
\* The inner loop over one view list: the list of fundamental classes, or
\* the exception the loop raises.
ViewSignature(views) ==
    LET grid(i) == views[i].type \in {"CoordinateGrid", "DataGrid"}
        unknown(i) == StackKeysOf(views[i].type) = {}
        bad == {i \in 1..Len(views) : grid(i) \/ unknown(i)}
        first == CHOOSE i \in bad : \A j \in bad : i <= j
    IN  IF bad # {}
        THEN [exc |-> IF grid(first) THEN "NotImplementedError" ELSE "IndexError",
              sig |-> << >>]
        ELSE [exc |-> "",
              sig |-> [i \in 1..Len(views) |->
                          CHOOSE k \in StackKeysOf(views[i].type) : TRUE]]

\* The outer loop from list i on, `sig` being the local signature so far.
RECURSIVE SignatureFrom(_, _, _)
SignatureFrom(view_lists, i, sig) ==
    IF i > Len(view_lists)
    THEN [exc |-> "", sig |-> sig]
    ELSE LET vs == ViewSignature(view_lists[i])
             now == IF sig = None THEN Some(vs.sig) ELSE sig
         IN  IF vs.exc # "" THEN [exc |-> vs.exc, sig |-> None]
             ELSE IF now # Some(vs.sig) THEN [exc |-> "Exception", sig |-> None]
             ELSE SignatureFrom(view_lists, i + 1, now)

\* A signature taken from the first list alone, the others left unexamined.
_get_signature_first_only(view_lists) ==
    SignatureFrom(IF view_lists = << >> THEN << >> ELSE <<view_lists[1]>>, 1, None)

_get_signature(view_lists) == SignatureFrom(view_lists, 1, None)

(***************************************************************************)
(* ViewOperation.__call__                                                  *)
(***************************************************************************)
\* The per-layer transform of the operation applied to one element: the
\* element carries the classes of the views its transform returns, and each
\* returned view remembers the element and the position it came from.
_process(el) ==
    [i \in 1..Len(el.outs) |-> [type |-> el.outs[i], from |-> el.id, pos |-> i]]

\* The stacks a per-layer operation may be called on: at most MaxEntries
\* entries, iterated in ascending key order.
Elements(k) == {[type |-> "View", id |-> k, outs |-> o] : o \in SeqsUpTo(ViewTypes, MaxOut)}

RECURSIVE ItemLists(_)
ItemLists(k) ==
    IF k > MaxEntries THEN {<< >>}
    ELSE LET rest == ItemLists(k + 1)
         IN  rest \cup {<< <<k, el>> >> \o r : el \in Elements(k), r \in rest}

\* A stack is its type, dimensions, metadata and, in iteration order, its
\* (key, value) pairs.
InputStacks ==
    {[type |-> "Stack", dimensions |-> <<"time">>, metadata |-> "md",
      title |-> <<"title">>, data |-> it] :
        it \in ItemLists(1)}

IsStack(view) == view.type \in {"Stack", "SheetStack", "DataStack", "TableStack"}

\* A stack constructed without a title has the title its class declares.
NewStack(tp, dims, md) ==
    [type |-> tp, dimensions |-> dims, metadata |-> md, title |-> <<"default">>,
     data |-> << >>]

\* stack[k] = v
SetItem(stack, k, v) ==
    [stack EXCEPT !.data =
        IF \E i \in 1..Len(@) : @[i][1] = k
        THEN [i \in 1..Len(@) |-> IF @[i][1] = k THEN <<k, v>> ELSE @[i]]
        ELSE Append(@, <<k, v>>)]

\* stack[k]
GetItem(stack, k) ==
    (CHOOSE kv \in Range(stack.data) : kv[1] = k)[2]

\* stacks = [stack_tp(dimensions=view.dimensions, metadata=view.metadata) ...]
BuildStacks(sig, view) ==
    [i \in 1..Len(sig) |->
        NewStack(stack_mapping[sig[i]], view.dimensions, view.metadata)]

\* An insertion that puts every view of an entry into the first stack.
RECURSIVE InsertViews_into_first(_, _, _, _)
InsertViews_into_first(sts, k, views, ind) ==
    IF ind > Len(views) THEN sts
    ELSE InsertViews_into_first([sts EXCEPT ![1] = SetItem(sts[1], k, views[ind])],
                                k, views, ind + 1)

\* for ind, v in enumerate(views): stacks[ind][k] = v
RECURSIVE InsertViews(_, _, _, _)
InsertViews(sts, k, views, ind) ==
    IF ind > Len(views) THEN sts
    ELSE InsertViews([sts EXCEPT ![ind] = SetItem(sts[ind], k, views[ind])],
                     k, views, ind + 1)

\* if len(xs) == 1: return xs[0], else: return GridLayout(xs)
Returned(single, xs) ==
    IF Len(xs) = 1
    THEN [kind |-> single, exc |-> "", items |-> xs]
    ELSE [kind |-> "grid", exc |-> "", items |-> xs]

\* __call__ on a view that is no Stack (lines 101-106).
CallOnView ==
    /\ cpc = "idle"
    /\ \E el \in Elements(0) :
         LET views == _process(el)
         IN  /\ cview' = Some(el)
             /\ cresult' = IF Len(views) = 0 THEN Raised("IndexError")
                           ELSE Returned("view", views)
             /\ cpc' = IF Len(views) = 0 THEN "error" ELSE "done"
    /\ UNCHANGED <<mapped_items, signature, stacks, cnext>>
    /\ UNCHANGED notCallVars

\* __call__ on a Stack, line 108: every entry is processed, in key order.
CallMap ==
    /\ cpc = "idle"
    /\ \E view \in InputStacks :
         /\ cview' = Some(view)
         /\ mapped_items' = [i \in 1..Len(view.data) |->
                               <<view.data[i][1], _process(view.data[i][2])>>]
    /\ cpc' = "mapped"
    /\ UNCHANGED <<signature, stacks, cnext, cresult>>
    /\ UNCHANGED notCallVars

\* line 109
CallSignature ==
    /\ cpc = "mapped"
    /\ LET r == _get_signature([i \in 1..Len(mapped_items) |-> mapped_items[i][2]])
       IN  IF r.exc # ""
           THEN /\ cpc' = "error"
                /\ cresult' = Raised(r.exc)
                /\ UNCHANGED signature
           ELSE /\ cpc' = "signed"
                /\ signature' = r.sig
                /\ UNCHANGED cresult
    /\ UNCHANGED <<cview, mapped_items, stacks, cnext>>
    /\ UNCHANGED notCallVars

\* lines 111-113: iterating a signature of None raises TypeError.
CallBuild ==
    /\ cpc = "signed"
    /\ IF signature = None
       THEN /\ cpc' = "error"
            /\ cresult' = Raised("TypeError")
            /\ UNCHANGED stacks
       ELSE /\ cpc' = "built"
            /\ stacks' = BuildStacks(signature[1], cview[1])
            /\ UNCHANGED cresult
    /\ UNCHANGED <<cview, mapped_items, signature, cnext>>
    /\ UNCHANGED notCallVars

\* lines 115-117, one entry of mapped_items per step.
CallInsert ==
    /\ cpc = "built"
    /\ cnext <= Len(mapped_items)
    /\ stacks' = InsertViews(stacks, mapped_items[cnext][1], mapped_items[cnext][2], 1)
    /\ cnext' = cnext + 1
    /\ UNCHANGED <<cpc, cview, mapped_items, signature, cresult>>
    /\ UNCHANGED notCallVars

\* lines 119-122
CallReturn ==
    /\ cpc = "built"
    /\ cnext > Len(mapped_items)
    /\ cpc' = "done"
    /\ cresult' = Returned("stack", stacks)
    /\ UNCHANGED <<cview, mapped_items, signature, stacks, cnext>>
    /\ UNCHANGED notCallVars

CallNext ==
    \/ CallOnView
    \/ CallMap
    \/ CallSignature
    \/ CallBuild
    \/ CallInsert
    \/ CallReturn

(***************************************************************************)
(* Claims about ViewOperation.__call__ on a Stack                          *)
(***************************************************************************)
CallEnded == cpc \in {"done", "error"}
OnStack == cview # None /\ IsStack(cview[1])
InItems == cview[1].data
InKeys == {InItems[i][1] : i \in 1..Len(InItems)}
InOuts(i) == InItems[i][2].outs

\* every entry's transform returns m outputs
AllReturn(m) == \A i \in 1..Len(InItems) : Len(InOuts(i)) = m

\* two entries differ in the number of outputs or in the fundamental class
\* at some output position
Differ(i, j) ==
    \/ Len(InOuts(i)) # Len(InOuts(j))
    \/ \E p \in 1..Len(InOuts(i)) :
          StackKeysOf(InOuts(i)[p]) # StackKeysOf(InOuts(j)[p])

Categorised(i) == \A p \in 1..Len(InOuts(i)) : StackKeysOf(InOuts(i)[p]) # {}

\* the call returned m stacks (one stack, or a grid of them), each with the
\* keys of the input, output position p of entry k at key k of stack p
ReturnedStacks(m) ==
    /\ cpc = "done"
    /\ cresult.kind = IF m = 1 THEN "stack" ELSE "grid"
    /\ Len(cresult.items) = m
    /\ \A p \in 1..m :
          /\ KeysOf(cresult.items[p].data) = InKeys
          /\ Len(cresult.items[p].data) = Len(InItems)
          /\ \A i \in 1..Len(InItems) :
                <<InItems[i][1],
                  [type |-> InOuts(i)[p], from |-> InItems[i][1], pos |-> p]>>
                    \in Range(cresult.items[p].data)

\* C1 as stated: for a Stack with any number N of entries whose transform
\* returns m >= 1 outputs for every entry, the call yields m output stacks
\* with exactly the input's keys, output position i of entry k at key k of
\* stack i.
C1_AsStated ==
    (CallEnded /\ OnStack) =>
        \A m \in 1..MaxOut : AllReturn(m) => ReturnedStacks(m)

\* C1 amended: the same, for a Stack with N >= 1 entries whose outputs all
\* belong to a fundamental class and agree in that class position by position;
\* a Stack without entries gives no signature and the call ends in TypeError.
C1_SameKeysSamePositions ==
    /\ (CallEnded /\ OnStack /\ Len(InItems) >= 1) =>
          \A m \in 1..MaxOut :
              ( /\ AllReturn(m)
                /\ \A i \in 1..Len(InItems) : Categorised(i)
                /\ \A i, j \in 1..Len(InItems) : ~Differ(i, j) )
              => ReturnedStacks(m)
    /\ (CallEnded /\ OnStack /\ Len(InItems) = 0) =>
          cresult = Raised("TypeError")

C1_Witness ==
    /\ cpc = "done" /\ OnStack
    /\ Len(InItems) = 2 /\ AllReturn(2)
    /\ cresult.kind = "grid"

\* C2: when two entries of the Stack differ in the number of outputs or in
\* the fundamental class at some position, the call fails, and no output
\* stack is constructed or populated at any point of the call.
C2_InconsistentFailsEarly ==
    (OnStack /\ \E i, j \in 1..Len(InItems) : Differ(i, j)) =>
        /\ cpc \in {"mapped", "error"}
        /\ stacks = << >>
        /\ cresult.kind \in {"none", "error"}

C2_Witness ==
    /\ OnStack /\ cpc = "error" /\ cresult.exc = "Exception"
    /\ \E i, j \in 1..Len(InItems) : Differ(i, j)


(***************************************************************************)
(* sample._process                                                         *)
(***************************************************************************)
\* A label is the sequence of its words; '' is the empty sequence.
EndsWith(label, pattern) ==
    /\ Len(pattern) <= Len(label)
    /\ SubSeq(label, Len(label) - Len(pattern) + 1, Len(label)) = pattern

\* OrderedDict(pairs): a key keeps the place of its first pair and takes the
\* value of its last.
RECURSIVE OrderedDictOf(_)
OrderedDictOf(pairs) ==
    IF pairs = << >> THEN << >>
    ELSE LET init == OrderedDictOf(SubSeq(pairs, 1, Len(pairs) - 1))
             last == pairs[Len(pairs)]
         IN  IF \E i \in 1..Len(init) : init[i][1] = last[1]
             THEN [i \in 1..Len(init) |->
                     IF init[i][1] = last[1] THEN last ELSE init[i]]
             ELSE Append(init, last)

IsSheetLayer(view) == view.type \in {"SheetView", "SheetOverlay", "Contours"}

\* ViewOperation.get_views with view_type = SheetView: the matches, or
\* None where neither branch binds `matches`.
get_views(view, pattern) ==
    IF view.type = "SheetOverlay"
    THEN Some(SelectSeq(SelectSeq(view.data, LAMBDA v : EndsWith(v.label, pattern)),
                     LAMBDA v : v.type = "SheetView"))
    ELSE IF view.type = "SheetView"
    THEN Some(IF EndsWith(view.label, pattern) THEN <<view>> ELSE << >>)
    ELSE None

\* SheetView.sheet2matrixidx: the cell of the array a sheet coordinate
\* falls in; the modelled sheets have one cell per unit coordinate.
sheet2matrixidx(s) == s

\* A table sample that walks the request instead of the table.
sample_table_by_request(view, samples) ==
    LET kept == SelectSeq(samples, LAMBDA h : \E kv \in Range(view.data) : kv[1] = h)
    IN  OrderedDictOf([i \in 1..Len(kept) |->
                          CHOOSE kv \in Range(view.data) : kv[1] = kept[i]])

\* OrderedDict((k, v) for k, v in view.data.items() if k in self.p.samples)
sample_table(view, samples) ==
    OrderedDictOf(SelectSeq(view.data, LAMBDA kv : kv[1] \in Range(samples)))

sample_process(view, samples) ==
    IF ~(IsSheetLayer(view) \/ view.type = "Table")
    THEN Raised("Exception")
    ELSE IF view.type = "Table"
    THEN Returned("view", << [type |-> "Table", data |-> sample_table(view, samples),
                              label |-> view.label, metadata |-> view.metadata] >>)
    ELSE LET sheetviews == get_views(view, << >>)
         IN  IF sheetviews = None THEN Raised("UnboundLocalError")
             ELSE IF Len(sheetviews[1]) # 1 THEN Raised("Exception")
             ELSE LET sv == sheetviews[1][1]
                      sample_inds == [i \in 1..Len(samples) |->
                                        <<samples[i], sheet2matrixidx(samples[i])>>]
                      data == OrderedDictOf(
                                 [i \in 1..Len(samples) |->
                                     <<sample_inds[i][1], sv.data[sample_inds[i][2]]>>])
                  IN  Returned("view", << [type |-> "Table", data |-> data,
                                           label |-> sv.label, metadata |-> sv.metadata] >>)

Headings == 1..MaxHeadings
CellValues == {0, 1}

\* every ordering of every set of headings, with every choice of values
RECURSIVE TableData(_)
TableData(hs) ==
    {<< >>} \cup
    UNION {{<< <<h, v>> >> \o rest : v \in CellValues, rest \in TableData(hs \ {h})} :
              h \in hs}

Tables ==
    {[type |-> "Table", data |-> d, label |-> <<"T">>, metadata |-> "md"] :
        d \in TableData(Headings)}

Sheet(l, d) == [type |-> "SheetView", data |-> d, label |-> <<l>>, metadata |-> "md"]
Lines(l) == [type |-> "Contours", data |-> << >>, label |-> <<l>>, metadata |-> "md"]

Sheets == {Sheet("V", d) : d \in [Headings -> CellValues]}

SheetOverlays ==
    {[type |-> "SheetOverlay", data |-> ls, label |-> << >>, metadata |-> "md"] :
        ls \in {<< >>, <<Lines("C")>>,
                <<Sheet("V", [h \in Headings |-> 1]), Lines("C")>>,
                <<Sheet("V", [h \in Headings |-> 0]), Sheet("W", [h \in Headings |-> 1])>>}}

\* a sheet layer that is neither a SheetView nor an overlay, and a view that
\* is no sheet layer
OtherViews ==
    {Lines("C"), [type |-> "Curve", data |-> << >>, label |-> <<"K">>, metadata |-> "md"]}

\* one call of sample._process
SampleOn(view, samples) ==
    /\ sview' = Some(view)
    /\ ssamples' = samples
    /\ sresult' = sample_process(view, samples)

SampleProcess ==
    /\ sresult.kind = "none"
    /\ \E samples \in SeqsUpTo(Headings, MaxSamples) :
         \/ \E view \in Tables : SampleOn(view, samples)
         \/ \E view \in Sheets : SampleOn(view, samples)
         \/ \E view \in SheetOverlays : SampleOn(view, samples)
         \/ \E view \in OtherViews : SampleOn(view, samples)
    /\ UNCHANGED notSampleVars

SampleNext == SampleProcess


(***************************************************************************)
(* Claims about sampling a Table                                           *)
(***************************************************************************)
OnTable == sview # None /\ sview[1].type = "Table"
PlaceOf(data, k) == CHOOSE i \in 1..Len(data) : data[i][1] = k

\* C6: sampling a Table returns a Table whose keys are the table's keys that
\* were requested, in the table's own order, each with its original value;
\* requested keys the table lacks are left out and raise nothing.
C6_TableOrderIntersection ==
    (OnTable /\ sresult.kind # "none") =>
        /\ sresult.kind = "view"
        /\ Len(sresult.items) = 1
        /\ sresult.items[1].type = "Table"
        /\ LET given == sview[1].data
               out == sresult.items[1].data
           IN  /\ KeysOf(out) = KeysOf(given) \cap Range(ssamples)
               /\ Len(out) = Cardinality(KeysOf(out))
               /\ \A i \in 1..Len(out) : out[i] \in Range(given)
               /\ \A i, j \in 1..Len(out) :
                     i < j => PlaceOf(given, out[i][1]) < PlaceOf(given, out[j][1])

\* two keys kept that were requested in the opposite order, a third
\* requested key absent from the table
C6_Witness ==
    /\ OnTable /\ sresult.kind = "view"
    /\ Len(sresult.items[1].data) = 2
    /\ \E a, b \in 1..Len(ssamples) :
          /\ a < b
          /\ ssamples[a] = sresult.items[1].data[2][1]
          /\ ssamples[b] = sresult.items[1].data[1][1]
    /\ \E a \in 1..Len(ssamples) : ssamples[a] \notin KeysOf(sview[1].data)


(***************************************************************************)
(* RGBA._process                                                           *)
(***************************************************************************)
Max(S) == CHOOSE x \in S : \A y \in S : y <= x
Min(S) == CHOOSE x \in S : \A y \in S : x <= y

\* numpy.ndarray.clip(lo, hi) without out=: a new array, the receiver is
\* left as it is.
clip(a, lo, hi) ==
    [i \in DOMAIN a |-> IF a[i] < lo THEN lo ELSE IF a[i] > hi THEN hi ELSE a[i]]

\* Line 177, `el.data.clip(0,1.0)`: the clipped copy is not assigned, so
\* the value of el.data after the statement is the array it held before.
data_after_clip_statement(a) ==
    LET clipped == clip(a, 0, 1) IN a

\* The loop of lines 174-178 from layer i on: the arrays gathered, the
\* layers as the loop leaves them and the warnings it emits.
RECURSIVE GatherArrays(_, _)
GatherArrays(layers, i) ==
    IF i > Len(layers)
    THEN [arrays |-> << >>, layers |-> layers, warnings |-> 0]
    ELSE LET el == layers[i]
             out == Max(Range(el.data)) > 1 \/ Min(Range(el.data)) < 0
             now == IF out THEN data_after_clip_statement(el.data) ELSE el.data
             rest == GatherArrays([layers EXCEPT ![i].data = now], i + 1)
         IN  [arrays |-> <<now>> \o rest.arrays,
              layers |-> rest.layers,
              warnings |-> rest.warnings + (IF out THEN 1 ELSE 0)]

\* np.dstack of equally shaped arrays: cell c holds one value per array
dstack(arrays) ==
    [c \in 1..Len(arrays[1]) |-> [l \in 1..Len(arrays) |-> arrays[l][c]]]

\* The call's outcome, the overlay afterwards and the warnings emitted.
RGBA_process(overlay) ==
    LET fail(e) == [result |-> Raised(e), overlay |-> overlay, warnings |-> 0]
    IN  IF Len(overlay.data) \notin {3, 4} THEN fail("Exception")
        ELSE IF ~(\A el \in Range(overlay.data) : el.type = "SheetView")
        THEN fail("Exception")
        ELSE IF ~(\A el \in Range(overlay.data) : el.depth = 1)
        THEN fail("Exception")
        ELSE LET g == GatherArrays(overlay.data, 1)
             IN  [result |-> Returned("view",
                                << [type |-> "SheetView", data |-> dstack(g.arrays),
                                    depth |-> Len(g.arrays), bounds |-> overlay.bounds,
                                    label |-> <<"RGBA">>,
                                    roi_bounds |-> overlay.roi_bounds] >>),
                  overlay |-> [overlay EXCEPT !.data = g.layers],
                  warnings |-> g.warnings]

\* channel values: below, inside and above the interval [0, 1]
ChannelValues == {-1, 1, 2}
Arrays == [1..MaxCells -> ChannelValues]

ChannelLayers ==
    {[type |-> "SheetView", depth |-> 1, data |-> a] : a \in Arrays}
    \cup {[type |-> "SheetView", depth |-> 3, data |-> [c \in 1..MaxCells |-> 1]],
          [type |-> "Contours", depth |-> 1, data |-> [c \in 1..MaxCells |-> 1]]}

ChannelOverlays ==
    {[type |-> "SheetOverlay", data |-> ls, bounds |-> "b", roi_bounds |-> "roi"] :
        ls \in SeqsUpTo(ChannelLayers, MaxLayers)}

RGBAProcess ==
    /\ rresult.kind = "none"
    /\ \E overlay \in ChannelOverlays :
         LET r == RGBA_process(overlay)
         IN  /\ rgiven' = Some(overlay)
             /\ roverlay' = Some(r.overlay)
             /\ rwarnings' = r.warnings
             /\ rresult' = r.result
    /\ UNCHANGED notRGBAVars

RGBANext == RGBAProcess

(***************************************************************************)
(* Claims about RGBA composition                                           *)
(***************************************************************************)
InUnit(a) == \A i \in DOMAIN a : 0 <= a[i] /\ a[i] <= 1

\* C7: RGBA composition of 3 or 4 depth-1 views, some layer holding a value
\* outside [0,1], does not fail: it warns, and after the call every value of
\* every input layer's array and of the composed array lies in [0,1].
C7_ClippedInPlace ==
    ( /\ rresult.kind # "none"
      /\ Len(rgiven[1].data) \in {3, 4}
      /\ \A el \in Range(rgiven[1].data) : el.type = "SheetView" /\ el.depth = 1
      /\ \E el \in Range(rgiven[1].data) : ~InUnit(el.data) )
    => /\ rresult.kind = "view"
       /\ rwarnings > 0
       /\ \A el \in Range(roverlay[1].data) : InUnit(el.data)
       /\ \A c \in DOMAIN rresult.items[1].data : InUnit(rresult.items[1].data[c])


(***************************************************************************)
(* HCS._process and Colorize._process                                      *)
(***************************************************************************)
\* SheetView.mode, a function of the depth (depth 1 is the colormap mode).
Mode(depth) ==
    CASE depth = 1 -> "cmap"
      [] depth = 3 -> "rgb"
      [] OTHER -> "rgba"

\* HCS._process on the layers of an overlay; the colour arithmetic is left
\* uninterpreted, the result keeps the shape and the hue layer's label.
HCS_process(layers) ==
    IF Len(layers) < 2 THEN Raised("IndexError")
    ELSE LET hue == layers[1]
             confidence == layers[2]
         IN  IF hue.shape # confidence.shape THEN Raised("Exception")
             ELSE Returned("view",
                     << [type |-> "SheetView", depth |-> 3, shape |-> hue.shape,
                         label |-> hue.label \o <<"HCS">>] >>)

Colorize_process(overlay) ==
    LET ov == overlay.data
    IN  IF Len(ov) # 2 /\ Len(ov) = 0 THEN Raised("IndexError")
        ELSE IF Len(ov) # 2 /\ Mode(ov[1].depth) # "cmap" THEN Raised("Exception")
        ELSE IF Len(ov) < 2 THEN Raised("IndexError")
        ELSE IF <<ov[1].depth, ov[2].depth>> # <<1, 1>> THEN Raised("Exception")
        ELSE IF ov[1].shape # ov[2].shape THEN Raised("Exception")
        ELSE LET C == [type |-> "SheetView", depth |-> 1, shape |-> ov[2].shape,
                       label |-> << >>]
                 hcs == HCS_process(<<ov[2], C, ov[1]>>)
             IN  IF hcs.kind = "error" THEN hcs
                 ELSE Returned("view",
                         << [type |-> "SheetView", depth |-> hcs.items[1].depth,
                             shape |-> hcs.items[1].shape,
                             label |-> ov[1].label \o <<"Colorize">>] >>)

Depths == {1, 3, 4}
Shapes == {<<1, 1>>, <<2, 2>>}

ColorLayers ==
    {[type |-> "SheetView", depth |-> d, shape |-> sh, label |-> <<"V">>] :
        d \in Depths, sh \in Shapes}

ColorOverlays ==
    {[type |-> "SheetOverlay", data |-> ls, bounds |-> "b"] :
        ls \in SeqsUpTo(ColorLayers, MaxColorLayers)}

ColorizeProcess ==
    /\ zresult.kind = "none"
    /\ \E overlay \in ColorOverlays :
         /\ zoverlay' = Some(overlay)
         /\ zresult' = Colorize_process(overlay)
    /\ UNCHANGED notColorizeVars

ColorizeNext == ColorizeProcess

(***************************************************************************)
(* Claims about Colorize                                                   *)
(***************************************************************************)
\* C8: Colorize fails, producing no output, whenever the overlay does not
\* have exactly 2 layers, or the first layer's mode is not the colormap
\* mode, or either layer's depth is not 1, or the two layers' shapes differ.
C8_FailsOnAnyViolation ==
    LET ov == zoverlay[1].data
    IN  ( /\ zresult.kind # "none"
          /\ \/ Len(ov) # 2
             \/ Mode(ov[1].depth) # "cmap"
             \/ ov[1].depth # 1
             \/ ov[2].depth # 1
             \/ ov[1].shape # ov[2].shape )
        => zresult.kind = "error" /\ zresult.items = << >>

(***************************************************************************)
(* contours._process                                                       *)
(***************************************************************************)
\* plt.contour: one collection per level, its paths standing for the cells
\* of the array at or above the level; an array that is not 2-D is refused.
plt_contour(sheetview, levels) ==
    IF sheetview.depth # 1 THEN Raised("TypeError")
    ELSE Returned("contour_set",
            [i \in 1..Len(levels) |->
                [paths |-> SelectSeq([c \in 1..Len(sheetview.data) |-> c],
                                     LAMBDA c : sheetview.data[c] >= levels[i])]])

\* Contours(lines, bounds, metadata={'level': level}, label=label + ' Level')
NewContours(sheetview, level, cset) ==
    [type |-> "Contours", data |-> cset.paths, bounds |-> sheetview.bounds,
     metadata |-> [level |-> level], label |-> sheetview.label \o <<"Level">>]

LevelValues == {1, 2}

ContourSheets ==
    {[type |-> "SheetView", depth |-> 1, data |-> a, bounds |-> "b", label |-> <<"V">>] :
        a \in Arrays}
    \cup {[type |-> "SheetView", depth |-> 3, data |-> [c \in 1..MaxCells |-> 1],
           bounds |-> "b", label |-> <<"V">>]}

\* line 332
ContoursFigure ==
    /\ kpc = "idle"
    /\ \E sheetview \in ContourSheets, levels \in SeqsUpTo(LevelValues, MaxLevels) :
         /\ ksheetview' = Some(sheetview)
         /\ klevels' = levels
    /\ figure_handle' = "open"
    /\ kpc' = "figure"
    /\ UNCHANGED <<contour_set, kcontours, kresult>>
    /\ UNCHANGED notContoursVars

\* lines 333-338
ContoursContour ==
    /\ kpc = "figure"
    /\ LET r == plt_contour(ksheetview[1], klevels)
       IN  IF r.kind = "error"
           THEN /\ kpc' = "error"
                /\ kresult' = r
                /\ UNCHANGED contour_set
           ELSE /\ kpc' = "loop"
                /\ contour_set' = r.items
                /\ UNCHANGED kresult
    /\ UNCHANGED <<ksheetview, klevels, figure_handle, kcontours>>
    /\ UNCHANGED notContoursVars

\* lines 339-344, one level per step; the Contours constructor may raise.
ContoursAppend ==
    /\ kpc = "loop"
    /\ Len(kcontours) < Len(klevels)
    /\ LET i == Len(kcontours) + 1
       IN  \E raises \in BOOLEAN :
             IF raises
             THEN /\ kpc' = "error"
                  /\ kresult' = Raised("Exception")
                  /\ UNCHANGED kcontours
             ELSE /\ kcontours' = Append(kcontours,
                                     NewContours(ksheetview[1], klevels[i], contour_set[i]))
                  /\ UNCHANGED <<kpc, kresult>>
    /\ UNCHANGED <<ksheetview, klevels, figure_handle, contour_set>>
    /\ UNCHANGED notContoursVars

\* line 346
ContoursClose ==
    /\ kpc = "loop"
    /\ Len(kcontours) = Len(klevels)
    /\ figure_handle' = "closed"
    /\ kpc' = "closed"
    /\ UNCHANGED <<ksheetview, klevels, contour_set, kcontours, kresult>>
    /\ UNCHANGED notContoursVars

\* lines 348-351
ContoursReturn ==
    /\ kpc = "closed"
    /\ kpc' = "done"
    /\ kresult' =
          Returned("view",
             << [type |-> "SheetOverlay", bounds |-> ksheetview[1].bounds,
                 data |-> IF Len(kcontours) = 1
                          THEN <<ksheetview[1], kcontours[1]>>
                          ELSE <<ksheetview[1],
                                 [type |-> "SheetOverlay", data |-> kcontours,
                                  bounds |-> ksheetview[1].bounds]>>] >>)
    /\ UNCHANGED <<ksheetview, klevels, figure_handle, contour_set, kcontours>>
    /\ UNCHANGED notContoursVars

ContoursNext ==
    \/ ContoursFigure
    \/ ContoursContour
    \/ ContoursAppend
    \/ ContoursClose
    \/ ContoursReturn

(***************************************************************************)
(* Claims about contour extraction                                         *)
(***************************************************************************)
\* C9: the figure created for the contouring call is closed on every exit
\* path of the operation, the paths that raise included: no call ends with
\* its figure still open.
C9_FigureClosedOnEveryExit ==
    kpc \in {"done", "error"} => figure_handle = "closed"


(***************************************************************************)
(* sample called on a Stack: ViewOperation.__call__ with sample._process   *)
(***************************************************************************)
\* for k, views in mapped_items: for ind, v in enumerate(views): ...
RECURSIVE InsertAll(_, _, _)
InsertAll(sts, mapped, i) ==
    IF i > Len(mapped) THEN sts
    ELSE InsertAll(InsertViews(sts, mapped[i][1], mapped[i][2], 1), mapped, i + 1)

sample_call(view, samples) ==
    LET done == [i \in 1..Len(view.data) |-> sample_process(view.data[i][2], samples)]
        failed == {i \in 1..Len(done) : done[i].kind = "error"}
    IN  IF failed # {} THEN done[Min(failed)]
        ELSE LET mapped == [i \in 1..Len(done) |-> <<view.data[i][1], done[i].items>>]
                 r == _get_signature([i \in 1..Len(mapped) |-> mapped[i][2]])
             IN  IF r.exc # "" THEN Raised(r.exc)
                 ELSE IF r.sig = None THEN Raised("TypeError")
                 ELSE Returned("stack",
                         InsertAll(BuildStacks(r.sig[1], view), mapped, 1))

(***************************************************************************)
(* curve_collapse: the stacks and calls of the model                       *)
(***************************************************************************)
\* A dimension: its name, whether it is cyclic and its range.
Dim(name) == [name |-> name, cyclic |-> name = "cond", range |-> <<0, 2>>]

DimNames == <<"time", "trial", "cond">>
Dimensions == [i \in 1..Len(DimNames) |-> Dim(DimNames[i])]
Coordinates == {1, 2}
AllKeys == [1..Len(DimNames) -> Coordinates]

\* Dimension.pprint_value: the value as formatted by the dimension.
pprint_value(dim, val) == [dim |-> dim.name, val |-> val]

\* The table stored at a key: one numeric value per heading that tells the
\* keys apart, a text heading, and a heading whose type varies with the key.
Number(key) == 100 * key[1] + 10 * key[2] + key[3]

TableAt(key) ==
    [type |-> "Table",
     data |-> << <<"temp", [tp |-> "int", v |-> Number(key)]>>,
                 <<"rate", [tp |-> "float", v |-> 1000 + Number(key)]>>,
                 <<"name", [tp |-> "str", v |-> 0]>>,
                 <<"mixed", [tp |-> IF key[1] = 1 THEN "int" ELSE "str", v |-> 0]>> >>,
     label |-> <<"T">>, metadata |-> "md"]

\* tuple comparison, as Python sorts tuples
RECURSIVE TupleLess(_, _)
TupleLess(a, b) ==
    IF a = << >> \/ b = << >> THEN a = << >> /\ b # << >>
    ELSE IF Head(a) # Head(b) THEN Head(a) < Head(b)
    ELSE TupleLess(Tail(a), Tail(b))

RECURSIVE SortedKeys(_)
SortedKeys(S) ==
    IF S = {} THEN << >>
    ELSE LET least == CHOOSE k \in S : \A o \in S \ {k} : TupleLess(k, o)
         IN  <<least>> \o SortedKeys(S \ {least})

\* the stacks handed to curve_collapse iterate in sorted key order
TableStacks ==
    {[type |-> "TableStack", dimensions |-> Dimensions, metadata |-> "md",
      title |-> <<"title">>,
      data |-> [i \in 1..Cardinality(ks) |->
                  <<SortedKeys(ks)[i], TableAt(SortedKeys(ks)[i])>>]] :
        ks \in {K \in SUBSET AllKeys : Cardinality(K) <= MaxStackKeys}}

AxisNames == Range(DimNames) \cup {"bogus"}
SampleLists == {<< >>, <<"temp">>, <<"rate", "temp">>, <<"name">>, <<"mixed">>, <<"absent">>}

(***************************************************************************)
(* curve_collapse._check_table_stack                                       *)
(***************************************************************************)
\* TableStack._type_map: for every heading of the stack's tables the type
\* its values share, None where they differ.
_type_map(stack) ==
    LET tables == {kv[2] : kv \in Range(stack.data)}
        heads == UNION {KeysOf(t.data) : t \in tables}
        types(h) == {kv[2].tp : kv \in {p \in UNION {Range(t.data) : t \in tables} : p[1] = h}}
    IN  [h \in heads |->
            IF Cardinality(types(h)) = 1 THEN Some(CHOOSE t \in types(h) : TRUE)
            ELSE None]

sample_types == {"int", "float"}

\* the exception _check_table_stack raises, "" where it returns
_check_table_stack(stack, samples, x_axis) ==
    LET tm == _type_map(stack)
        bad == {i \in 1..Len(samples) :
                   tm[samples[i]] = None \/ tm[samples[i]][1] \notin sample_types}
    IN  IF ~(\A h \in Range(samples) : h \in DOMAIN tm) THEN "Exception"
        ELSE IF bad # {} THEN "Exception"
        ELSE IF x_axis = None THEN "Exception"
        ELSE ""

(***************************************************************************)
(* curve_collapse._split_keys_by_axis and split_axis                       *)
(***************************************************************************)
dimension_labels(stack) == [i \in 1..Len(stack.dimensions) |-> stack.dimensions[i].name]

\* stack.dim_index(name), counted from 1
dim_index(stack, name) ==
    CHOOSE i \in 1..Len(stack.dimensions) : stack.dimensions[i].name = name

\* stack.dim_dict[name]
dim_dict(stack, name) == stack.dimensions[dim_index(stack, name)]

\* list(OrderedDict.fromkeys(xs)): each value once, at its first place
RECURSIVE fromkeys(_)
fromkeys(xs) ==
    IF xs = << >> THEN << >>
    ELSE LET init == fromkeys(SubSeq(xs, 1, Len(xs) - 1))
         IN  IF xs[Len(xs)] \in Range(init) THEN init ELSE Append(init, xs[Len(xs)])

\* k[:x_ndim] + k[x_ndim+1:]
ShortenKey(k, x_ndim) == SubSeq(k, 1, x_ndim - 1) \o SubSeq(k, x_ndim + 1, Len(k))

\* An expanded key with the x value put in front, whatever the axis.
ExpandKey_in_front(k, x, x_ndim) == <<x>> \o k

\* k[:x_ndim] + (x,) + k[x_ndim:]
ExpandKey(k, x, x_ndim) == SubSeq(k, 1, x_ndim - 1) \o <<x>> \o SubSeq(k, x_ndim, Len(k))

\* The x values listed last seen first.
_split_keys_by_axis_reversed(stack, keys, x_axis) ==
    LET x_ndim == dim_index(stack, x_axis)
        xs == fromkeys([i \in 1..Len(keys) |-> keys[i][x_ndim]])
    IN  << [i \in 1..Len(xs) |-> xs[Len(xs) + 1 - i]],
           fromkeys([i \in 1..Len(keys) |-> ShortenKey(keys[i], x_ndim)]) >>

_split_keys_by_axis(stack, keys, x_axis) ==
    LET x_ndim == dim_index(stack, x_axis)
        xvals == [i \in 1..Len(keys) |-> keys[i][x_ndim]]
        dim_vals == [i \in 1..Len(keys) |-> ShortenKey(keys[i], x_ndim)]
    IN  <<fromkeys(xvals), fromkeys(dim_vals)>>

\* The OrderedDict of shortened keys, each holding the OrderedDict of the
\* x values whose expanded key the stack stores.
split_axis(stack, x_axis) ==
    LET x_ndim == dim_index(stack, x_axis)
        keys == [i \in 1..Len(stack.data) |-> stack.data[i][1]]
        split == _split_keys_by_axis(stack, keys, x_axis)
        x_vals == split[1]
        dim_values == split[2]
        present(k) == SelectSeq(x_vals, LAMBDA x : ExpandKey(k, x, x_ndim) \in Range(keys))
    IN  [j \in 1..Len(dim_values) |->
            <<dim_values[j],
              [i \in 1..Len(present(dim_values[j])) |->
                  <<present(dim_values[j])[i],
                    GetItem(stack, ExpandKey(dim_values[j], present(dim_values[j])[i], x_ndim))>>]>>]


(***************************************************************************)
(* curve_collapse._curve_labels and _generate_curves                       *)
(***************************************************************************)
\* str.title() and str.capitalize(), word by word
Titled(label) == [i \in 1..Len(label) |-> <<"title", label[i]>>]
Capitalized(label) == [i \in 1..Len(label) |-> <<"capitalize", label[i]>>]

\* (title_prefix, label, xlabel, ylabel), None for any other stack type
_curve_labels(stack_type, xaxis, sample, ylabel) ==
    IF stack_type = "SheetStack"
    THEN Some(<< <<"Coord:", sample>>,
                 Titled(Capitalized(<<xaxis>>) \o ylabel),
                 Titled(<<xaxis>>), Titled(ylabel) >>)
    ELSE IF stack_type = "TableStack"
    THEN Some(<< ylabel, Titled(<<sample>>), Titled(<<xaxis>>), Titled(<<sample>>) >>)
    ELSE None

\* view[sample] on a Table
TableValue(table, sample) == (CHOOSE kv \in Range(table.data) : kv[1] = sample)[2]

\* a * b on curves and curve overlays
Overlaid(a, b) ==
    IF a.type = "DataOverlay" THEN [a EXCEPT !.data = Append(@, b)]
    ELSE [type |-> "DataOverlay", data |-> <<a, b>>]

\* zip(self.p.group_by, overlay_inds), read at a shortened key
overlay_items(key, groups, overlay_inds) ==
    [i \in 1..Min({Len(groups), Len(overlay_inds)}) |->
        <<groups[i], key[overlay_inds[i]]>>]

\* Lines 514-531 for one shortened key: the curve and its title prefix, or
\* the exception raised before the curve is built.
CurveAt(stack, stack_type, xaxis, groups, sample, key, x_axis_data, overlay_inds, cyclic_range) ==
    LET sampled_curve_data ==
            [i \in 1..Len(x_axis_data) |->
                <<x_axis_data[i][1], TableValue(x_axis_data[i][2], sample)>>]
        items == overlay_items(key, groups, overlay_inds)
        labels == _curve_labels(stack_type, xaxis, sample, x_axis_data[1][2].label)
    IN  IF \E i \in 1..Len(items) : items[i][1] \notin Range(dimension_labels(stack))
        THEN [exc |-> "KeyError"]
        ELSE IF x_axis_data = << >> THEN [exc |-> "IndexError"]
        ELSE IF labels = None THEN [exc |-> "TypeError"]
        ELSE [exc |-> "",
              title_prefix |-> labels[1][1],
              curve |-> [type |-> "Curve", data |-> sampled_curve_data,
                         cyclic_range |-> cyclic_range, metadata |-> stack.metadata,
                         label |-> labels[1][2],
                         legend_label |->
                             [i \in 1..Len(items) |->
                                 pprint_value(dim_dict(stack, items[i][1]), items[i][2])],
                         xlabel |-> labels[1][3], ylabel |-> labels[1][4]]]

\* A stack key that keeps the overlaid components of the key.
StackKey_keeping_all(key, overlay_inds) == key

\* tuple(kval for ind, kval in enumerate(key) if ind not in overlay_inds)
StackKey(key, overlay_inds) ==
    LET kept == SelectSeq([i \in 1..Len(key) |-> i], LAMBDA i : i \notin Range(overlay_inds))
    IN  [i \in 1..Len(kept) |-> key[kept[i]]]

\* The loop of lines 512-548 from entry j of split_data on, `dataview`
\* being the overlay or stack built so far (None before the first curve of a
\* call without output dimensions).
RECURSIVE CurvesFrom(_, _, _, _, _, _, _, _, _, _, _)
CurvesFrom(stack, stack_type, stack_dims, xaxis, groups, sample, split, overlay_inds, cyclic_range, j, dataview) ==
    IF j > Len(split) THEN [exc |-> "", dataview |-> dataview]
    ELSE LET key == split[j][1]
             c == CurveAt(stack, stack_type, xaxis, groups, sample, key, split[j][2],
                          overlay_inds, cyclic_range)
             next(dv) == CurvesFrom(stack, stack_type, stack_dims, xaxis, groups, sample,
                                    split, overlay_inds, cyclic_range, j + 1, dv)
         IN  IF c.exc # "" THEN [exc |-> c.exc, dataview |-> dataview]
             ELSE IF stack_dims = << >>
             THEN next(IF dataview = None THEN Some(c.curve)
                       ELSE Some(Overlaid(dataview[1], c.curve)))
             ELSE LET titled == [dataview[1] EXCEPT !.title = c.title_prefix \o @]
                      stack_key == StackKey(key, overlay_inds)
                  IN  next(Some(
                         IF stack_key \notin KeysOf(titled.data)
                         THEN SetItem(titled, stack_key,
                                      [type |-> "DataOverlay", data |-> <<c.curve>>])
                         ELSE SetItem(titled, stack_key,
                                      Overlaid(GetItem(titled, stack_key), c.curve))))

\* The loop of line 509 from sample i on.
RECURSIVE DataviewsFrom(_, _, _, _, _, _, _, _, _, _)
DataviewsFrom(stack, stack_type, stack_dims, xaxis, groups, samples, split, overlay_inds, cyclic_range, i) ==
    IF i > Len(samples) THEN Returned("stack", << >>)
    ELSE LET fresh == IF stack_dims # << >>
                      THEN Some([type |-> "DataStack", dimensions |-> stack_dims,
                                 metadata |-> stack.metadata, title |-> stack.title,
                                 data |-> << >>])
                      ELSE None
             one == CurvesFrom(stack, stack_type, stack_dims, xaxis, groups, samples[i],
                               split, overlay_inds, cyclic_range, 1, fresh)
             rest == DataviewsFrom(stack, stack_type, stack_dims, xaxis, groups, samples,
                                   split, overlay_inds, cyclic_range, i + 1)
         IN  IF one.exc # "" THEN Raised(one.exc)
             ELSE IF rest.kind = "error" THEN rest
             ELSE [rest EXCEPT !.items = <<one.dataview>> \o @]

_generate_curves(stack, stack_type, xaxis, groups, samples, stack_dims, split, overlay_inds, cyclic_range) ==
    DataviewsFrom(stack, stack_type, stack_dims, xaxis, groups, samples, split,
                  overlay_inds, cyclic_range, 1)


(***************************************************************************)
(* StackOperation.__call__ and curve_collapse._process                     *)
(***************************************************************************)
\* A check for repeated names that never finds one.
RepeatsName_never(specified_dims) == FALSE

\* len(specified_dims) != len(specified_dims_set)
RepeatsName(specified_dims) ==
    Len(specified_dims) # Cardinality(Range(specified_dims))

\* [d for d in sampled_stack._dimensions if d.name not in specified_dims_set]
stack_dims_of(stack, xaxis, groups) ==
    SelectSeq(stack.dimensions, LAMBDA d : d.name \notin {xaxis} \cup Range(groups))

\* [d for d in sampled_stack.dimension_labels if d != self.p.x_axis]
output_dims_of(stack, xaxis) ==
    SelectSeq(dimension_labels(stack), LAMBDA d : d # xaxis)

\* [i for i, name in enumerate(output_dims) if name in self.p.group_by]
overlay_inds_of(stack, xaxis, groups) ==
    LET output_dims == output_dims_of(stack, xaxis)
    IN  SelectSeq([i \in 1..Len(output_dims) |-> i],
                  LAMBDA i : output_dims[i] \in Range(groups))

\* StackOperation.__call__ lines 132-138 and _process lines 401-404
CollapseCall ==
    /\ qpc = "idle"
    /\ \E samples \in SampleLists :
         LET stack == qstack[1]
             sampled == sample_call(stack, samples)
             fail(e) == /\ qpc' = "error"
                        /\ qresult' = Raised(e)
                        /\ UNCHANGED sampled_stack
         IN  \E xaxis \in {None} \cup {Some(n) : n \in AxisNames},
                groups \in InjSeqsUpTo(AxisNames, MaxGroup) :
               /\ p_x_axis' = xaxis
               /\ p_group_by' = groups
               /\ p_samples' = samples
               /\ IF ~IsStack(stack) THEN fail("Exception")
                  ELSE IF sampled.kind = "error" THEN fail(sampled.exc)
                  ELSE IF _check_table_stack(sampled.items[1], samples, xaxis) # ""
                  THEN fail(_check_table_stack(sampled.items[1], samples, xaxis))
                  ELSE /\ qpc' = "checked"
                       /\ sampled_stack' = Some(sampled.items[1])
                       /\ UNCHANGED qresult
    /\ UNCHANGED <<qstack, split_data>>
    /\ UNCHANGED notCollapseVars

\* _process lines 406-411
CollapseValidate ==
    /\ qpc = "checked"
    /\ IF p_x_axis[1] \notin Range(dimension_labels(sampled_stack[1]))
       THEN qpc' = "error" /\ qresult' = Raised("KeyError")
       ELSE IF RepeatsName(<<p_x_axis[1]>> \o p_group_by)
       THEN qpc' = "error" /\ qresult' = Raised("Exception")
       ELSE qpc' = "validated" /\ UNCHANGED qresult
    /\ UNCHANGED <<qstack, p_x_axis, p_group_by, p_samples, sampled_stack, split_data>>
    /\ UNCHANGED notCollapseVars

\* _process lines 414-424
CollapseSplit ==
    /\ qpc = "validated"
    /\ split_data' = Some(split_axis(sampled_stack[1], p_x_axis[1]))
    /\ qpc' = "split"
    /\ UNCHANGED <<qstack, p_x_axis, p_group_by, p_samples, sampled_stack, qresult>>
    /\ UNCHANGED notCollapseVars

\* _process line 426 and StackOperation.__call__ lines 140-143
CollapseGenerate ==
    /\ qpc = "split"
    /\ LET x_dim == dim_dict(sampled_stack[1], p_x_axis[1])
           cyclic_range == IF x_dim.cyclic THEN Some(x_dim.range[2]) ELSE None
           r == _generate_curves(sampled_stack[1], qstack[1].type, p_x_axis[1],
                                 p_group_by, p_samples,
                                 stack_dims_of(sampled_stack[1], p_x_axis[1], p_group_by),
                                 split_data[1],
                                 overlay_inds_of(sampled_stack[1], p_x_axis[1], p_group_by),
                                 cyclic_range)
       IN  IF r.kind = "error"
           THEN qpc' = "error" /\ qresult' = r
           ELSE qpc' = "done" /\ qresult' = Returned("stack", r.items)
    /\ UNCHANGED <<qstack, p_x_axis, p_group_by, p_samples, sampled_stack, split_data>>
    /\ UNCHANGED notCollapseVars

CollapseNext ==
    \/ CollapseCall
    \/ CollapseValidate
    \/ CollapseSplit
    \/ CollapseGenerate


(***************************************************************************)
(* Claims about curve_collapse                                             *)
(***************************************************************************)
Called == qpc # "idle"
DimSet == Range(dimension_labels(qstack[1]))
XIndex == CHOOSE i \in 1..Len(DimNames) : DimNames[i] = p_x_axis[1]
SampledKeys == KeysOf(sampled_stack[1].data)

\* the shortened key with x put back at place n
Reinserted(short, x, n) ==
    [i \in 1..Len(short) + 1 |->
        IF i < n THEN short[i] ELSE IF i = n THEN x ELSE short[i - 1]]

\* the key without its coordinate at place n
Without(key, n) ==
    [i \in 1..Len(key) - 1 |-> IF i < n THEN key[i] ELSE key[i + 1]]

Shortened == {Without(k, XIndex) : k \in SampledKeys}
XsAt(short) == {k[XIndex] : k \in {o \in SampledKeys : Without(o, XIndex) = short}}

\* the curves of one returned dataview: a curve, an overlay of curves or a
\* stack of overlays
CurvesOf(dataview) ==
    IF dataview.type = "Curve" THEN {dataview}
    ELSE IF dataview.type = "DataOverlay" THEN Range(dataview.data)
    ELSE UNION {Range(kv[2].data) : kv \in Range(dataview.data)}

CurveCount(dataview) ==
    IF dataview.type = "Curve" THEN 1
    ELSE IF dataview.type = "DataOverlay" THEN Len(dataview.data)
    ELSE LET RECURSIVE sum(_)
             sum(i) == IF i = 0 THEN 0
                       ELSE Len(dataview.data[i][2].data) + sum(i - 1)
         IN  sum(Len(dataview.data))

XsOfCurve(c) == [i \in 1..Len(c.data) |-> c.data[i][1]]
Ascending(xs) == \A i, j \in 1..Len(xs) : i < j => xs[i] < xs[j]

\* the place at which x first shows among the stack's keys, in their order
FirstSeen(x) ==
    Min({i \in 1..Len(sampled_stack[1].data) : sampled_stack[1].data[i][1][XIndex] = x})
InOrderFirstSeen(xs) ==
    \A i, j \in 1..Len(xs) : i < j => FirstSeen(xs[i]) < FirstSeen(xs[j])

\* the value the stack holds for a sample at a shortened key and x
ValueAt(short, x, sample) ==
    TableValue(GetItem(sampled_stack[1], Reinserted(short, x, XIndex)), sample)

\* some curve of the dataview holds exactly the points of the shortened key
HasCurveFor(dataview, short, sample) ==
    \E c \in CurvesOf(dataview) :
        /\ Range(XsOfCurve(c)) = XsAt(short)
        /\ Len(c.data) = Cardinality(XsAt(short))
        /\ \A i \in 1..Len(c.data) : c.data[i][2] = ValueAt(short, c.data[i][1], sample)

ExactCurves ==
    \A s \in 1..Len(p_samples) :
        /\ CurveCount(qresult.items[s][1]) = Cardinality(Shortened)
        /\ \A short \in Shortened : HasCurveFor(qresult.items[s][1], short, p_samples[s])

KeysSorted ==
    \A i, j \in 1..Len(qstack[1].data) :
        i < j => TupleLess(qstack[1].data[i][1], qstack[1].data[j][1])

NoErrorFromSparsity ==
    (split_data # None /\ Range(p_group_by) \subseteq DimSet) => qpc # "error"

\* C3 as stated: for a stack iterating in sorted key order and any x-axis
\* dimension, every curve lists its points in ascending x order and holds
\* exactly the x values the stack has at its shortened key; sparse stacks
\* raise nothing.
C3_AsStated ==
    /\ NoErrorFromSparsity
    /\ (qpc = "done" /\ KeysSorted) =>
          /\ ExactCurves
          /\ \A s \in 1..Len(p_samples) :
                \A c \in CurvesOf(qresult.items[s][1]) : Ascending(XsOfCurve(c))

\* C3 amended: every curve holds exactly the x values the stack has at its
\* shortened key, listed in the order in which the x values first show among
\* the stack's keys; that order is ascending when the x-axis is the first
\* key dimension; sparse stacks raise nothing.
C3_PointsInFirstSeenOrder ==
    /\ NoErrorFromSparsity
    /\ (qpc = "done" /\ KeysSorted) =>
          /\ ExactCurves
          /\ \A s \in 1..Len(p_samples) :
                \A c \in CurvesOf(qresult.items[s][1]) :
                    /\ InOrderFirstSeen(XsOfCurve(c))
                    /\ XIndex = 1 => Ascending(XsOfCurve(c))

\* a sparse stack, the x-axis not first in the key, curves of different
\* lengths, one of them with its x values not ascending
C3_Witness ==
    /\ qpc = "done" /\ p_samples = <<"temp">> /\ XIndex = 2
    /\ \E c, d \in CurvesOf(qresult.items[1][1]) :
          /\ Len(c.data) = 2 /\ Len(d.data) = 1
          /\ ~Ascending(XsOfCurve(c))

\* C4: a call whose x_axis is also named in group_by fails, whatever the
\* stack and the samples, before any axis is split or curve built.
C4_XAxisInGroupByFails ==
    (Called /\ p_x_axis # None /\ p_x_axis[1] \in Range(p_group_by)) =>
        /\ qpc \in {"checked", "error"}
        /\ split_data = None
        /\ qresult.kind \in {"none", "error"}
        /\ qresult.items = << >>

\* the call got as far as the check of repeated names and failed there
C4_Witness ==
    /\ qpc = "error" /\ qresult.exc = "Exception"
    /\ sampled_stack # None
    /\ p_x_axis # None /\ p_x_axis[1] \in DimSet
    /\ p_x_axis[1] \in Range(p_group_by)
    /\ Len(qstack[1].data) = 3

\* C5: a call whose x_axis or some group_by name is no dimension of the
\* stack fails, before any curve is synthesized, and returns no result.
C5_UnknownNameFails ==
    ( /\ Called /\ IsStack(qstack[1])
      /\ \/ p_x_axis # None /\ p_x_axis[1] \notin DimSet
         \/ \E g \in Range(p_group_by) : g \notin DimSet )
    => /\ qpc \in {"checked", "error"}
       /\ split_data = None
       /\ qresult.kind \in {"none", "error"}

\* C10: split_axis re-keys the stack without loss: putting every nested x
\* back into its shortened key gives exactly the keys of the stack, none
\* twice; every (shortened key, x) holds the stack's entry at that key; no
\* shortened key holds an empty set of x values.
C10_SplitIsLossless ==
    split_data # None =>
        LET sd == split_data[1]
            pairs == {<<j, i>> \in (1..Len(sd)) \X (1..MaxStackKeys) : i <= Len(sd[j][2])}
            back(p) == Reinserted(sd[p[1]][1], sd[p[1]][2][p[2]][1], XIndex)
        IN  /\ {back(p) : p \in pairs} = SampledKeys
            /\ Cardinality(pairs) = Cardinality(SampledKeys)
            /\ \A j \in 1..Len(sd) : Len(sd[j][2]) <= MaxStackKeys
            /\ \A p \in pairs :
                  <<back(p), sd[p[1]][2][p[2]][2]>> \in Range(sampled_stack[1].data)
            /\ \A j \in 1..Len(sd) : sd[j][2] # << >>

\* a sparse stack split on its second dimension, one shortened key holding
\* two x values and another a single one
C10_Witness ==
    /\ qpc = "split" /\ XIndex = 2 /\ p_samples = <<"temp">>
    /\ Len(sampled_stack[1].data) = 3
    /\ \E j, l \in 1..Len(split_data[1]) :
          Len(split_data[1][j][2]) = 2 /\ Len(split_data[1][l][2]) = 1

\* the names of a shortened key's places: the dimensions without the x-axis
OutNames == Without(DimNames, XIndex)
GroupPlaces == {i \in 1..Len(OutNames) : OutNames[i] \in Range(p_group_by)}
KeptPlaces == (1..Len(OutNames)) \ GroupPlaces

\* a shortened key with its group-by components removed
Projected(short) ==
    LET nth(n) == CHOOSE i \in KeptPlaces :
                     Cardinality({o \in KeptPlaces : o < i}) = n - 1
    IN  [n \in 1..Cardinality(KeptPlaces) |-> short[nth(n)]]

\* the curve holds the points the stack has for a sample at a shortened key
IsCurveOf(c, short, sample) ==
    /\ Range(XsOfCurve(c)) = XsAt(short)
    /\ \A i \in 1..Len(c.data) : c.data[i][2] = ValueAt(short, c.data[i][1], sample)

\* the call passed its validation with group_by naming dimensions only
GroupedByDimensions ==
    /\ split_data # None
    /\ Range(p_group_by) \subseteq DimSet

\* the output of one sample is a stack keyed by the projected shortened keys,
\* each overlay holding one curve per shortened key projecting onto its key
\* (the curves and those shortened keys correspond one to one)
StackOfOverlays(dataview, sample) ==
    /\ dataview.type = "DataStack"
    /\ KeysOf(dataview.data) = {Projected(short) : short \in Shortened}
    /\ Len(dataview.data) = Cardinality({Projected(short) : short \in Shortened})
    /\ \A n \in 1..Len(dataview.data) :
          LET key == dataview.data[n][1]
              overlay == dataview.data[n][2]
              onto == {short \in Shortened : Projected(short) = key}
          IN  /\ overlay.type = "DataOverlay"
              /\ Len(overlay.data) = Cardinality(onto)
              /\ \E of \in [1..Len(overlay.data) -> onto] :
                    /\ \A short \in onto : \E i \in 1..Len(overlay.data) : of[i] = short
                    /\ \A i \in 1..Len(overlay.data) :
                          IsCurveOf(overlay.data[i], of[i], sample)

\* C11: when a dimension remains besides the x-axis and the group-by
\* dimensions, the call does not fail and returns for each requested sample a
\* stack whose keys are the shortened keys without their group-by components,
\* the overlay at each key holding exactly one curve per shortened key that
\* projects onto that key.
C11_OneCurvePerShortenedKey ==
    (GroupedByDimensions /\ KeptPlaces # {}) =>
        /\ qpc # "error"
        /\ qpc = "done" =>
              /\ Len(qresult.items) = Len(p_samples)
              /\ qresult.kind = IF Len(p_samples) = 1 THEN "stack" ELSE "grid"
              /\ \A s \in 1..Len(p_samples) :
                    StackOfOverlays(qresult.items[s][1], p_samples[s])

\* two samples, one group-by dimension, a sparse stack: one overlay of two
\* curves and one of a single curve in each returned stack
C11_Witness ==
    /\ qpc = "done" /\ GroupedByDimensions
    /\ Len(p_samples) = 2 /\ Len(p_group_by) = 1
    /\ Cardinality(KeptPlaces) = 1
    /\ \E n, o \in 1..Len(qresult.items[2][1].data) :
          /\ Len(qresult.items[2][1].data[n][2].data) = 2
          /\ Len(qresult.items[2][1].data[o][2].data) = 1

\* the place of a dimension in a shortened key
PlaceInShort(name) == CHOOSE i \in 1..Len(OutNames) : OutNames[i] = name

\* the legend of the curve at a shortened key: for every group_by name, in
\* the order given, that dimension's formatting of the key's value for it
LegendOf(short) ==
    [i \in 1..Len(p_group_by) |->
        pprint_value(dim_dict(sampled_stack[1], p_group_by[i]),
                     short[PlaceInShort(p_group_by[i])])]

\* C12: for a group_by list of dimension names in any order, the legend label
\* of the curve at each shortened key joins, over the group_by names, the
\* dimension's own formatting of the value the key holds for that dimension.
C12_LegendByOwnDimension ==
    (qpc = "done" /\ GroupedByDimensions) =>
        \A s \in 1..Len(p_samples) : \A short \in Shortened :
            \E c \in CurvesOf(qresult.items[s][1]) :
                /\ IsCurveOf(c, short, p_samples[s])
                /\ c.legend_label = LegendOf(short)


(***************************************************************************)
(* Specifications: each operation is specified on its own, the state of    *)
(* the other operations staying as it is before any call.                  *)
(***************************************************************************)
\* No operation has been called.
Init ==
    /\ cpc = "idle"
    /\ cview = None
    /\ mapped_items = << >>
    /\ signature = None
    /\ stacks = << >>
    /\ cnext = 1
    /\ cresult = NoResult
    /\ sview = None
    /\ ssamples = << >>
    /\ sresult = NoResult
    /\ rgiven = None
    /\ roverlay = None
    /\ rwarnings = 0
    /\ rresult = NoResult
    /\ zoverlay = None
    /\ zresult = NoResult
    /\ kpc = "idle"
    /\ ksheetview = None
    /\ klevels = << >>
    /\ figure_handle = "none"
    /\ contour_set = << >>
    /\ kcontours = << >>
    /\ kresult = NoResult
    /\ qpc = "idle"
    /\ p_x_axis = None
    /\ p_group_by = << >>
    /\ p_samples = << >>
    /\ sampled_stack = None
    /\ split_data = None
    /\ qresult = NoResult
    /\ qstack = None

\* No operation has been called; the caller holds the object it is about to
\* hand to curve_collapse.
InitCollapse ==
    /\ cpc = "idle"
    /\ cview = None
    /\ mapped_items = << >>
    /\ signature = None
    /\ stacks = << >>
    /\ cnext = 1
    /\ cresult = NoResult
    /\ sview = None
    /\ ssamples = << >>
    /\ sresult = NoResult
    /\ rgiven = None
    /\ roverlay = None
    /\ rwarnings = 0
    /\ rresult = NoResult
    /\ zoverlay = None
    /\ zresult = NoResult
    /\ kpc = "idle"
    /\ ksheetview = None
    /\ klevels = << >>
    /\ figure_handle = "none"
    /\ contour_set = << >>
    /\ kcontours = << >>
    /\ kresult = NoResult
    /\ qpc = "idle"
    /\ p_x_axis = None
    /\ p_group_by = << >>
    /\ p_samples = << >>
    /\ sampled_stack = None
    /\ split_data = None
    /\ qresult = NoResult
    /\ qstack \in {Some(v) : v \in TableStacks \cup {TableAt([i \in 1..Len(DimNames) |-> 1])}}

SpecCall == Init /\ [][CallNext]_vars

SpecSample == Init /\ [][SampleNext]_vars

SpecRGBA == Init /\ [][RGBANext]_vars

SpecColorize == Init /\ [][ColorizeNext]_vars

SpecContours == Init /\ [][ContoursNext]_vars

SpecCollapse == InitCollapse /\ [][CollapseNext]_vars
====
